---- MODULE Spec2Model ----
(***************************************************************************)
(* Streaming-response assembly and session state of ollie-rs.              *)
(*                                                                         *)
(* One run of the model is one caller using one entry point of the crate:  *)
(*   "session"         src/session.rs OllamaSession::update, which drives  *)
(*                     Ollama::chat = send_request (src/ollama/ollama.rs)  *)
(*   "ollama_session"  src/ollama/ollama_session.rs OllamaSession::update, *)
(*                     which drives the typed chat = request3 and commits  *)
(*                     with add_response                                   *)
(*   "stream_session"  src/ollama/session.rs OllamaSession::update, which  *)
(*                     drives OllamaResponseStream::read / response        *)
(*   "chat"            Ollama::generate / Ollama::chat called directly     *)
(*   "chat3"           Ollama::generate3 / Ollama::chat3 called directly   *)
(*   "read2"           OllamaResponseStream::read2 called directly         *)
(*   "gemini"          Gemini::chat (src/gemini/gemini.rs) on a            *)
(*                     GeminiRequest the caller builds and extends         *)
(*   "gemini_stream"   Gemini::generate_stream and a caller reading the    *)
(*                     GeminiResponseStream to its end, then its text()    *)
(*   "xml_util"        XmlUtil::remove_tag (src/xml_util.rs) applied to    *)
(*                     one input text and tag name                         *)
(*   "response",       the statistics functions of OllamaResponse and of   *)
(*   "ollama_response" OllamaResponse2 applied to one response             *)
(*                                                                         *)
(* The transport (reqwest) is the environment: sending succeeds or fails,  *)
(* and each pull of the body yields a chunk, the end of the body, or a     *)
(* transport error.                                                        *)
(***************************************************************************)
EXTENDS Integers, Sequences, FiniteSets, TLC

\* ---------------------------------------------------------------- bounds
MaxChunks == 2       \* chunks the transport delivers within one call
MaxResponses == 1    \* calls of one run that return Ok (failed calls may be retried)
MaxPrompts == 1      \* user / system / assistant appends of one run
MaxContents == 2     \* contents the caller adds to GeminiRequests in one run
MaxChats == 2        \* Gemini::chat calls of one run that return Ok
MaxPieces == 3       \* pieces an input text of remove_tag is made of

\* ------------------------------------------------------ values on the wire
\* Option<T> is a sequence of length at most one.
None == <<>>
Some(x) == <<x>>
IsSome(o) == o # <<>>
Unwrap(o) == o[1]

\* Text is a sequence of characters.
Empty == <<>>
TxtA == <<"a">>
TxtB == <<"b">>
TxtErr == <<"e">>
TxtQ == <<"q">>

\* A chunk of the HTTP body.  kind "bad": bytes that are no JSON document;
\* kind "num": a JSON document that is no object (a number); kind "obj": a
\* JSON object, of which the model keeps the fields the crate reads.
\* msg: the object has a "message" object; role, content, tool_calls: fields
\* of it (tool_calls: the names of the calls, none in the frames built here).
Chunk(kind, msg, role, content, response, error, done) ==
    [kind |-> kind, msg |-> msg, role |-> role, content |-> content,
     response |-> response, error |-> error, done |-> done, tool_calls |-> <<>>]

BadChunk == Chunk("bad", FALSE, None, None, None, None, FALSE)
NumChunk == Chunk("num", FALSE, None, None, None, None, FALSE)
Obj(msg, role, content, response, error, done) ==
    Chunk("obj", msg, role, content, response, error, done)

Assistant == Some("assistant")

\* a chat frame whose message carries one tool call and no text
ToolCallChunk ==
    [Obj(TRUE, Assistant, Some(Empty), None, None, FALSE)
        EXCEPT !.tool_calls = <<"get_weather">>]

Chunks ==
    { BadChunk,
      NumChunk,
      Obj(TRUE, Assistant, Some(TxtA), None, None, FALSE),       \* chat fragment
      Obj(TRUE, Assistant, Some(TxtB), None, None, TRUE),        \* chat frame with text, marked done
      Obj(TRUE, Assistant, Some(Empty), None, None, TRUE),       \* chat terminal frame
      Obj(FALSE, None, None, Some(TxtA), None, FALSE),           \* generate fragment
      Obj(FALSE, None, None, None, Some(TxtErr), FALSE),         \* error frame
      Obj(TRUE, Assistant, Some(TxtA), None, Some(TxtErr), FALSE), \* error and content
      Obj(TRUE, Assistant, Some(TxtA), Some(TxtB), None, FALSE), \* response and content
      ToolCallChunk
    }

\* ------------------------------------------------ the body on the transport
\* the bytes of one chunk handed out by chunk(): pieces in order, each a whole
\* JSON document or one half of a document cut in two
Whole(d) == [part |-> "whole", doc |-> d]
FirstHalf(d) == [part |-> "first", doc |-> d]
SecondHalf(d) == [part |-> "second", doc |-> d]

\* serde_json::from_slice / from_str on the bytes of one chunk: the document
\* when the bytes are exactly one document; truncated input and trailing
\* characters (a second document) are errors, no bytes are kept for later
parse_chunk(bytes) ==
    IF Len(bytes) = 1 /\ bytes[1].part = "whole" THEN bytes[1].doc ELSE BadChunk

Apis == {"session", "ollama_session", "stream_session", "chat", "chat3", "read2"}
Sessions == {"session", "ollama_session", "stream_session"}
\* "gemini": a caller of Gemini::chat (src/gemini/gemini.rs) and its GeminiRequest
GeminiApis == {"gemini"}
\* "gemini_stream": a caller of Gemini::generate_stream and GeminiResponseStream
GeminiStreamApis == {"gemini_stream"}
Roles == {"user", "system", "assistant"}

VARIABLES
    api,                 \* the entry point this run uses
    stream,              \* request.stream() of the request that is sent
    save_responses,      \* OllamaResponseStream.save_responses
    messages,            \* the session request's message list
    prompts,             \* number of user/system/assistant appends so far
    responses,           \* number of calls that returned Ok so far
    pc,                  \* "idle" | "sending" | "streaming" | "panicked"
    sent,                \* the message list serialized into the last request
    pre,                 \* the message list when the current/last call began
    transport,           \* what the transport last reported: "none" | "open" | "ended" | "failed"
    chunks,              \* chunks pulled from the transport in this call
    handled,             \* responses passed to response_handler / callback / read
    accumulated,         \* accumulated_content / accumulated_text of the client
    last_response,       \* last_response / response of the client
    llm_responses,       \* OllamaResponseStream.llm_responses
    llm_response,        \* OllamaResponseStream.llm_response
    session_content,     \* accumulated_content of src/session.rs update
    cbLog,               \* strings passed to the caller's callback in this call
    ret,                 \* outcome of the last call: "none" | "Ok" | "Err" | "panic"
    result,              \* the Option<response> an Ok call returned
    failed_at,           \* where the last Err arose: "none" | "send" | "chunk" | "decode"
    held,                \* the caller holds the GeminiRequest (it is moved into chat)
    status,              \* HTTP status of the Gemini answer: "none" | "success" | "failure"
    ops,                 \* the operations on the GeminiRequest so far, in order
    counts,              \* eval_count, prompt_eval_count, eval_duration of a response
    stats,               \* what the last statistics function returned
    input,               \* the text handed to remove_tag
    tag_name             \* the tag name handed to remove_tag

vars == <<api, stream, save_responses, messages, prompts, responses, pc, sent, pre,
          transport, chunks, handled, accumulated, last_response, llm_responses,
          llm_response, session_content, cbLog, ret, result, failed_at,
          held, status, ops, counts, stats, input, tag_name>>

text_input == <<input, tag_name>>
config == <<api, stream, save_responses, text_input>>
gemini == <<held, status, ops>>
numbers == <<counts, stats>>
locals == <<handled, accumulated, last_response, llm_responses, llm_response,
            session_content, cbLog>>


\* JsonValue::default(), the initial llm_response of a stream
NullValue == Chunk("null", FALSE, None, None, None, None, FALSE)

\* ------------------------------------- OllamaResponse (src/ollama/response.rs)
\* faulty variant, for sensitivity of the properties: undecodable bytes are taken for an (empty) response
try_from_lossy(c) == Some(c)

\* impl TryFrom<&Bytes>: serde_json::from_slice; any JSON document is accepted
try_from(c) == IF c.kind = "bad" THEN None ELSE Some(c)

\* self.response.get("message")?.get("content")?.as_str()
content(r) == IF r.msg THEN r.content ELSE None

\* self.response.get("response")?.as_str()
response(r) == r.response

\* self.response.get("error")?.as_str()
error(r) == r.error

\* self.response.get("message").is_some()
message(r) == r.msg

\* self.response["message"]["content"] = content (the message is created if absent)
set_content(r, t) == [r EXCEPT !.msg = TRUE, !.content = Some(t)]

\* self.response["response"] = text; indexing a JSON number for writing panics
set_response_panics(r) == r.kind = "num"
set_response(r, t) == [r EXCEPT !.response = Some(t)]

\* --------------------------------- OllamaRequest (src/request.rs), message list
\* a message of the list; OllamaMessage::new().set_role(..).set_content(..)
\* has no tool calls
Turn(role, text) == [role |-> role, content |-> text, tool_calls |-> <<>>]

\* messages.push(message.as_json().clone())
push_message(msgs, m) == Append(msgs, m)

\* ------------------------------------- Ollama::send_request (src/ollama/ollama.rs)
OptText(o) == IF IsSome(o) THEN Unwrap(o) ELSE Empty

\* faulty variant, for sensitivity of the properties: the fragment replaces the accumulated text
send_request_accumulate_replace(acc, r, strm) ==
    IF strm THEN OptText(response(r)) \o OptText(content(r)) ELSE acc

\* lines 266-274: push_str of the response field, then of the message content
send_request_accumulate(acc, r, strm) ==
    IF strm THEN acc \o OptText(response(r)) \o OptText(content(r)) ELSE acc

\* lines 284-295: the accumulated content is put into the last response
send_request_result(last, acc, strm) ==
    IF strm /\ IsSome(last)
    THEN LET r == Unwrap(last) IN
         IF message(r)
         THEN [panic |-> FALSE, value |-> Some(set_content(r, acc))]
         ELSE IF set_response_panics(r)
              THEN [panic |-> TRUE, value |-> None]
              ELSE [panic |-> FALSE, value |-> Some(set_response(r, acc))]
    ELSE [panic |-> FALSE, value |-> last]

\* ------------------------------------- OllamaSession::update (src/session.rs)
\* faulty variant, for sensitivity of the properties: an empty fragment is not passed to callback
session_update_handler_skips_empty(r) ==
    (IF IsSome(error(r)) THEN <<Unwrap(error(r))>> ELSE <<>>)
    \o (IF IsSome(content(r)) /\ Unwrap(content(r)) # Empty
        THEN <<Unwrap(content(r))>> ELSE <<>>)

\* lines 133-146: the closure handed to chat; the strings it passes to callback
session_update_handler(r) ==
    (IF IsSome(error(r)) THEN <<Unwrap(error(r))>> ELSE <<>>)
    \o (IF IsSome(content(r)) THEN <<Unwrap(content(r))>> ELSE <<>>)

\* faulty variant, for sensitivity of the properties: the fragment replaces the accumulated content
session_update_accumulate_replace(sc, r) == OptText(content(r))

\* lines 141-145: accumulated_content.push_str(content)
session_update_accumulate(sc, r) == sc \o OptText(content(r))

\* lines 149-157: the assistant message is added to the request
session_update_commit(msgs, sc) ==
    push_message(msgs, Turn(Assistant, Some(sc)))


\* ----------------------------- OllamaResponse2 (src/ollama/ollama_response.rs)
\* serde_json::from_value into the struct: only a JSON object deserializes
\* (the message becomes an OllamaMessage, which has the fields role and
\* content only: the other fields of the JSON message are not kept)
from_json(v) ==
    IF v.kind = "obj" THEN Some([v EXCEPT !.tool_calls = <<>>]) ELSE None

\* lines 89-104: the message content if there is one, else the response field
text(r) ==
    IF r.msg /\ IsSome(r.content) THEN r.content
    ELSE IF IsSome(r.response) THEN r.response
    ELSE None

\* lines 149-151 with OllamaMessage::set_content: message.clone().set_content(t)
set_message_content(r, t) == [r EXCEPT !.content = Some(t)]

\* ----------------------------- OllamaRequest2 (src/ollama/ollama_request.rs)
\* faulty variant, for sensitivity of the properties: the new message is put in front
add_message_front(msgs, m) == <<m>> \o msgs

\* lines 135-141
add_message(msgs, m) == Append(msgs, m)

\* faulty variant, for sensitivity of the properties: a message is added even when the response has none
add_response_always(msgs, r) ==
    add_message(msgs, IF r.msg THEN Turn(r.role, r.content) ELSE Turn(None, None))

\* lines 202-209: the response's message, if any, is cloned and added
add_response(msgs, r) ==
    IF r.msg THEN add_message(msgs, Turn(r.role, r.content)) ELSE msgs

\* ------------------------------------- Ollama::request3 (src/ollama/ollama.rs)
\* lines 162-164: from_str(..)? then OllamaResponse2::from_json(..)?
request3_decode(c) == IF c.kind = "bad" THEN None ELSE from_json(c)

\* lines 167-169
request3_accumulate(acc, r) == acc \o OptText(text(r))

\* lines 176-192: the accumulated text is set in the final response; unwrap
request3_result(last, acc, strm) ==
    IF ~IsSome(last) THEN [panic |-> TRUE, value |-> None]
    ELSE LET r == Unwrap(last) IN
         IF ~strm THEN [panic |-> FALSE, value |-> Some(r)]
         ELSE IF r.msg
              THEN [panic |-> FALSE, value |-> Some(set_message_content(r, acc))]
              ELSE [panic |-> FALSE, value |-> Some(set_response(r, acc))]

\* ----------------------- OllamaSession::update (src/ollama/ollama_session.rs)
\* lines 183-191: the closure handed to chat; the strings it passes to callback
ollama_session_update_handler(r) ==
    IF IsSome(text(r)) THEN <<Unwrap(text(r))>> ELSE <<>>

\* line 193: self.request.add_response(&response)
ollama_session_update_commit(msgs, r) == add_response(msgs, r)

\* ------------- OllamaResponseStream (src/ollama/ollama_response_stream.rs)
\* lines 25-42: the value read returns; None also for undecodable bytes
read(c) == IF c.kind = "bad" THEN None ELSE Some(c)

RECURSIVE ConcatContent(_)
ConcatContent(rs) ==
    IF rs = <<>> THEN Empty
    ELSE OptText(content(Head(rs))) \o ConcatContent(Tail(rs))

RECURSIVE ConcatResponse(_)
ConcatResponse(rs) ==
    IF rs = <<>> THEN Empty
    ELSE OptText(response(Head(rs))) \o ConcatResponse(Tail(rs))

\* lines 64-95
stream_response(saved, lastv, save) ==
    IF ~save THEN [panic |-> FALSE, value |-> lastv]
    ELSE IF saved = <<>> THEN [panic |-> TRUE, value |-> NullValue]
    ELSE LET last == saved[Len(saved)]
             ac == ConcatContent(saved)
             ar == ConcatResponse(saved)
             r1 == IF ac # Empty THEN set_content(last, ac) ELSE last
             r2 == IF ar # Empty THEN set_response(r1, ar) ELSE r1
         IN  IF (ac # Empty \/ ar # Empty) /\ last.kind = "num"
             THEN [panic |-> TRUE, value |-> NullValue]
             ELSE [panic |-> FALSE, value |-> r2]

\* ----------------------------- OllamaSession::update (src/ollama/session.rs)
\* lines 191-200: callback(content) when the frame's message has content
stream_session_update_handler(r) ==
    IF IsSome(content(r)) THEN <<Unwrap(content(r))>> ELSE <<>>

\* lines 202-203: OllamaResponse2::from_json(stream.response()).ok()
stream_session_update_result(v) == from_json(v)


\* ------------------------------------------------------ response statistics
\* "response": the statistics of OllamaResponse (src/ollama/response.rs);
\* "ollama_response": those of OllamaResponse2 (src/ollama/ollama_response.rs)
StatApis == {"response", "ollama_response"}

\* An unsigned integer of the code is a little-endian sequence of 16-bit
\* limbs: two for u32, four for u64.
LimbBase == 65536
U32Limbs == 2
U64Limbs == 4
CountLimbs(a) == IF a = "response" THEN U64Limbs ELSE U32Limbs

SmallValue(n, k) == <<k>> \o [i \in 1..(n - 1) |-> 0]
HalfValue(n) == [i \in 1..(n - 1) |-> 0] \o <<LimbBase \div 2>>
MaxValue(n) == [i \in 1..n |-> LimbBase - 1]

\* the counts a response may carry: none, 0, a few, 2^(w-1), 2^w - 1
CountValues(n) ==
    {None, Some(SmallValue(n, 0)), Some(SmallValue(n, 3)), Some(HalfValue(n)),
     Some(MaxValue(n))}

\* eval_duration in nanoseconds: none, 0, half a millisecond, one, one and a
\* half, two seconds
NanosPerMilli == 1000000
MillisPerSecond == 1000
NanosPerSecond == NanosPerMilli * MillisPerSecond
DurationValues ==
    {None, Some(0), Some(NanosPerMilli \div 2), Some(NanosPerMilli),
     Some(NanosPerMilli + NanosPerMilli \div 2), Some(2 * NanosPerSecond)}

NoCounts == [eval_count |-> None, prompt_eval_count |-> None, eval_duration |-> None]
NoStats == [fn |-> "none"]

\* whether overflow checks are compiled in (debug) or not (release)
Builds == {"debug", "release"}

\* a + b on n limbs with the carry out as the last limb: the exact sum
RECURSIVE AddLimbs(_, _, _)
AddLimbs(a, b, carry) ==
    IF a = <<>> THEN <<carry>>
    ELSE LET t == a[1] + b[1] + carry
         IN  <<t % LimbBase>> \o AddLimbs(Tail(a), Tail(b), t \div LimbBase)

\* Option::unwrap_or(0) of a count of n limbs
count_or_zero(o, n) == IF IsSome(o) THEN Unwrap(o) ELSE SmallValue(n, 0)

\* OllamaResponse::tokens_used (u64) and OllamaResponse2::tokens_used (u32):
\* eval_count.unwrap_or(0) + prompt_eval_count.unwrap_or(0) in the width of
\* the type; on overflow a debug build panics and a release build wraps
tokens_used(c, n, build) ==
    LET sum == AddLimbs(count_or_zero(c.eval_count, n),
                        count_or_zero(c.prompt_eval_count, n), 0)
    IN  [panic |-> sum[n + 1] # 0 /\ build = "debug",
         value |-> SubSeq(sum, 1, n)]

\* a non-negative rational in lowest terms
RECURSIVE GCD(_, _)
GCD(a, b) == IF b = 0 THEN a ELSE GCD(b, a % b)
Ratio(a, b) ==
    IF a = 0 THEN [num |-> 0, den |-> 1]
    ELSE [num |-> a \div GCD(a, b), den |-> b \div GCD(a, b)]

\* OllamaResponse::elapsed_time, and eval_in_seconds of print_stats: the
\* nanoseconds are divided to whole milliseconds, and these by 1000.0
elapsed_time(c) ==
    LET nanoseconds == IF IsSome(c.eval_duration) THEN Unwrap(c.eval_duration) ELSE 0
        milliseconds == nanoseconds \div NanosPerMilli
    IN  Ratio(milliseconds, MillisPerSecond)

\* the eval_count as a number, for the counts small enough to divide here
Fits(c) ==
    IsSome(c.eval_count) => \A i \in 2..Len(Unwrap(c.eval_count)) :
                                Unwrap(c.eval_count)[i] = 0
eval_count_or_zero(c) == IF IsSome(c.eval_count) THEN Unwrap(c.eval_count)[1] ELSE 0

\* faulty variant, for sensitivity of the properties: the division is done whatever the elapsed time
eval_rate_unguarded(c) ==
    [num |-> eval_count_or_zero(c) * elapsed_time(c).den, den |-> elapsed_time(c).num]

\* OllamaResponse::eval_rate, and token_rate of print_stats:
\* eval_count as f64 / elapsed_time when elapsed_time > 0.0, else 0.0
eval_rate(c) ==
    LET elapsed == elapsed_time(c)
        eval_count == eval_count_or_zero(c)
    IN  IF elapsed.num > 0
        THEN Ratio(eval_count * elapsed.den, elapsed.num)
        ELSE Ratio(0, 1)

\* ================================================ XmlUtil (src/xml_util.rs)
XmlApis == {"xml_util"}

\* texts are sequences of characters; the tag names of the inputs
T == <<"t">>
TX == <<"t", "x">>
TagNames == {T, TX}

\* the pieces the input texts are made of
Pieces ==
    { <<"<", "t", ">">>,                                   \* <t>
      <<"<", "/", "t", ">">>,                              \* </t>
      <<"<", "t", ">", "a", "<", "/", "t", ">">>,          \* <t>a</t>
      <<"<", "t", "x", ">">>,                              \* <tx>
      <<"<", "/", "t", "x", ">">>,                         \* </tx>
      <<"<", "t", "/", ">">>,                              \* <t/>
      <<"<", "t", " ", "k", ">">>,                         \* <t k>
      <<"b">>,
      <<"<">>,
      <<"t", ">", "c", "<", "/", "t", ">">>                \* t>c</t>
    }

RECURSIVE Texts(_)
Texts(n) ==
    IF n = 0 THEN {Empty}
    ELSE Texts(n - 1) \cup { t \o p : t \in Texts(n - 1), p \in Pieces }

Inputs == Texts(MaxPieces)

\* str::find of the pattern in s[from..]: the position (from 1) of the first
\* match at or after from, 0 for None
Matches(s, pat, i) ==
    i + Len(pat) - 1 <= Len(s) /\ SubSeq(s, i, i + Len(pat) - 1) = pat

find(s, pat, from) ==
    LET hits == { i \in from..Len(s) : Matches(s, pat, i) } IN
    IF hits = {} THEN 0 ELSE CHOOSE i \in hits : \A j \in hits : i <= j

\* String::replace_range(start..end, ""): the characters first..last are cut out
replace_range(s, first, last) == SubSeq(s, 1, first - 1) \o SubSeq(s, last + 1, Len(s))

\* faulty variant, for sensitivity of the properties: the first occurrence is removed and the search is not repeated
remove_tag_once(res, removed_any, opening_tag, closing_tag) ==
    LET start_pos == find(res, opening_tag, 1)
        gt == IF start_pos = 0 THEN 0 ELSE find(res, <<">">>, start_pos)
        close == IF gt = 0 THEN 0 ELSE find(res, closing_tag, gt + 1)
    IN  IF close = 0
        THEN [result |-> res, removed_any |-> removed_any]
        ELSE [result |-> replace_range(res, start_pos, close + Len(closing_tag) - 1),
              removed_any |-> TRUE]

\* lines 38-60: the loop of remove_tag on the working copy
RECURSIVE remove_tag_loop(_, _, _, _)
remove_tag_loop(res, removed_any, opening_tag, closing_tag) ==
    LET start_pos == find(res, opening_tag, 1)
        gt == IF start_pos = 0 THEN 0 ELSE find(res, <<">">>, start_pos)
        close == IF gt = 0 THEN 0 ELSE find(res, closing_tag, gt + 1)
    IN  IF close = 0
        THEN [result |-> res, removed_any |-> removed_any]
        ELSE remove_tag_loop(replace_range(res, start_pos, close + Len(closing_tag) - 1),
                             TRUE, opening_tag, closing_tag)

\* XmlUtil::remove_tag, lines 30-63
remove_tag(text_in, tag) ==
    LET r == remove_tag_loop(text_in, FALSE, <<"<">> \o tag, <<"<", "/">> \o tag \o <<">">>)
    IN  IF r.removed_any THEN Some(r.result) ELSE None

\* ------------------------------------------------------------------ state
Init ==
    /\ api \in Apis \cup GeminiApis \cup GeminiStreamApis \cup StatApis \cup XmlApis
    /\ stream \in (IF api \in {"chat", "chat3"} THEN BOOLEAN ELSE {TRUE})
    /\ save_responses \in (IF api = "read2" THEN BOOLEAN ELSE {FALSE})
    /\ messages = <<>>
    /\ prompts = 0
    /\ responses = 0
    /\ pc = "idle"
    /\ sent = <<>>
    /\ pre = <<>>
    /\ transport = "none"
    /\ chunks = <<>>
    /\ handled = <<>>
    /\ accumulated = Empty
    /\ last_response = None
    /\ llm_responses = <<>>
    /\ llm_response = NullValue
    /\ session_content = Empty
    /\ cbLog = <<>>
    /\ ret = "none"
    /\ result = None
    /\ failed_at = "none"
    /\ held = FALSE
    /\ status = "none"
    /\ ops = <<>>
    /\ counts \in (IF api \in StatApis
                    THEN [eval_count : CountValues(CountLimbs(api)),
                          prompt_eval_count : CountValues(CountLimbs(api)),
                          eval_duration : DurationValues]
                    ELSE {NoCounts})
    /\ stats = NoStats
    /\ input \in (IF api \in XmlApis THEN Inputs ELSE {Empty})
    /\ tag_name \in (IF api \in XmlApis THEN TagNames ELSE {Empty})

\* how a call ends
Return(r, v, where, msgs) ==
    /\ pc' = "idle"
    /\ responses' = IF r = "Ok" THEN responses + 1 ELSE responses
    /\ ret' = r
    /\ result' = v
    /\ failed_at' = where
    /\ messages' = msgs

Panic ==
    /\ pc' = "panicked"
    /\ responses' = responses
    /\ ret' = "panic"
    /\ result' = None
    /\ failed_at' = "none"
    /\ messages' = messages

\* faulty variant, for sensitivity of the properties: the Err arm commits an (empty) assistant turn all the same
update_err_commits(msgs) == Append(msgs, Turn(Assistant, Some(Empty)))

\* the Err arm of update (session.rs 161, ollama_session.rs 191 `?`,
\* ollama/session.rs 206): the error is returned, nothing else is done
update_err(msgs) == msgs

\* the record of the call that returned is dropped with its response
Forget ==
    /\ transport' = "none"
    /\ chunks' = <<>>
    /\ handled' = <<>>
    /\ accumulated' = Empty
    /\ last_response' = None
    /\ llm_responses' = <<>>
    /\ llm_response' = NullValue
    /\ session_content' = Empty
    /\ cbLog' = <<>>
    /\ ret' = "none"
    /\ result' = None
    /\ failed_at' = "none"

\* OllamaSession::user / system / assistant: one message is added
add_turn(role) ==
    /\ api \in Sessions
    /\ pc = "idle"
    /\ prompts < MaxPrompts
    /\ prompts' = prompts + 1
    /\ messages' = IF api = "session"
                   THEN push_message(messages, Turn(Some(role), Some(TxtQ)))
                   ELSE add_message(messages, Turn(Some(role), Some(TxtQ)))
    /\ Forget
    /\ UNCHANGED <<gemini, numbers, config, responses, pc, sent, pre>>

user == add_turn("user")
system == add_turn("system")
assistant == add_turn("assistant")

\* faulty variant, for sensitivity of the properties: the assistant turn is pushed when the call begins, to be filled later
call_commits_early ==
    /\ api \in Apis
    /\ pc = "idle"
    /\ responses < MaxResponses
    /\ pc' = "sending"
    /\ pre' = messages
    /\ sent' = messages
    /\ messages' = IF api \in Sessions
                   THEN Append(messages, Turn(Assistant, Some(Empty))) ELSE messages
    /\ Forget
    /\ UNCHANGED <<gemini, numbers, config, prompts, responses>>

\* update / chat / generate is called: the request is serialized and sent.
\* The sessions of ollama_session.rs and ollama/session.rs set stream to true;
\* the request of session.rs has no stream field, which reads as true.
call ==
    /\ api \in Apis
    /\ pc = "idle"
    /\ responses < MaxResponses
    /\ pc' = "sending"
    /\ pre' = messages
    /\ sent' = messages
    /\ Forget
    /\ UNCHANGED <<gemini, numbers, config, messages, prompts, responses>>

\* send().await returns the live response
send_ok ==
    /\ api \in Apis
    /\ pc = "sending"
    /\ pc' = "streaming"
    /\ transport' = "open"
    /\ save_responses' = IF api = "stream_session" THEN TRUE ELSE save_responses
    /\ UNCHANGED <<gemini, numbers, text_input, api, stream, messages, prompts,
                   responses, sent, pre, chunks, locals, ret, result, failed_at>>

\* send().await fails: `?` in send_request / request3, the Err arm in update
send_fail ==
    /\ api \in Apis
    /\ pc = "sending"
    /\ Return("Err", None, "send", update_err(messages))
    /\ transport' = "failed"
    /\ UNCHANGED <<gemini, numbers, config, prompts, sent, pre, chunks, locals>>

Pull(c) ==
    /\ pc = "streaming"
    /\ Len(chunks) < MaxChunks
    /\ chunks' = Append(chunks, c)
    /\ transport' = "open"

Continue ==
    /\ pc' = "streaming"
    /\ UNCHANGED <<messages, responses, ret, result, failed_at>>

\* Ollama::send_request, one iteration of the chunk loop (lines 259-282)
send_request_chunk(c) ==
    /\ api \in {"session", "chat"}
    /\ Pull(c)
    /\ Continue
    /\ IF IsSome(try_from(c))
       THEN LET r == Unwrap(try_from(c)) IN
            /\ handled' = Append(handled, r)
            /\ cbLog' = IF api = "session"
                        THEN cbLog \o session_update_handler(r) ELSE cbLog
            /\ session_content' = IF api = "session"
                                  THEN session_update_accumulate(session_content, r)
                                  ELSE session_content
            /\ accumulated' = send_request_accumulate(accumulated, r, stream)
            /\ last_response' = Some(r)
       ELSE UNCHANGED <<handled, cbLog, session_content, accumulated, last_response>>
    /\ UNCHANGED <<gemini, numbers, config, prompts, sent, pre, llm_responses, llm_response>>

\* Ollama::send_request after the loop (lines 284-295), then update's Ok arm
send_request_end ==
    /\ api \in {"session", "chat"}
    /\ pc = "streaming"
    /\ transport' = "ended"
    /\ LET r == send_request_result(last_response, accumulated, stream) IN
       IF r.panic THEN Panic
       ELSE Return("Ok", r.value, "none",
                   IF api = "session"
                   THEN session_update_commit(messages, session_content)
                   ELSE messages)
    /\ UNCHANGED <<gemini, numbers, config, prompts, sent, pre, chunks, locals>>


\* Ollama::request3, one iteration of the chunk loop (lines 160-174)
request3_chunk(c) ==
    /\ api \in {"ollama_session", "chat3"}
    /\ Pull(c)
    /\ IF IsSome(request3_decode(c))
       THEN LET r == Unwrap(request3_decode(c)) IN
            /\ Continue
            /\ accumulated' = request3_accumulate(accumulated, r)
            /\ handled' = Append(handled, r)
            /\ cbLog' = IF api = "ollama_session"
                        THEN cbLog \o ollama_session_update_handler(r) ELSE cbLog
            /\ last_response' = Some(r)
       ELSE /\ Return("Err", None, "decode", update_err(messages))
            /\ UNCHANGED <<accumulated, handled, cbLog, last_response>>
    /\ UNCHANGED <<gemini, numbers, config, prompts, sent, pre, llm_responses, llm_response,
                   session_content>>

\* Ollama::request3 after the loop (lines 176-192), then update's add_response
request3_end ==
    /\ api \in {"ollama_session", "chat3"}
    /\ pc = "streaming"
    /\ transport' = "ended"
    /\ LET r == request3_result(last_response, accumulated, stream) IN
       IF r.panic THEN Panic
       ELSE Return("Ok", r.value, "none",
                   IF api = "ollama_session"
                   THEN ollama_session_update_commit(messages, Unwrap(r.value))
                   ELSE messages)
    /\ UNCHANGED <<gemini, numbers, config, prompts, sent, pre, chunks, locals>>

\* chunk().await? fails in send_request, request3 or read2: the error is returned
chunk_error ==
    /\ api \in {"session", "chat", "ollama_session", "chat3", "read2"}
    /\ pc = "streaming"
    /\ transport' = "failed"
    /\ Return("Err", None, "chunk", update_err(messages))
    /\ UNCHANGED <<gemini, numbers, config, prompts, sent, pre, chunks, locals>>

\* update of ollama/session.rs once read() has returned None (lines 202-203)
stream_session_finish ==
    LET r == stream_response(llm_responses', llm_response', save_responses) IN
    IF r.panic THEN Panic
    ELSE Return("Ok", stream_session_update_result(r.value), "none", messages)

\* update of ollama/session.rs, one iteration of `while let Some(..) = stream.read()`
read_chunk(c) ==
    /\ api = "stream_session"
    /\ Pull(c)
    /\ IF IsSome(read(c))
       THEN LET v == Unwrap(read(c)) IN
            /\ Continue
            /\ llm_responses' = IF save_responses
                                THEN Append(llm_responses, v) ELSE llm_responses
            /\ llm_response' = IF save_responses THEN llm_response ELSE v
            /\ handled' = Append(handled, v)
            /\ cbLog' = cbLog \o stream_session_update_handler(v)
       ELSE /\ UNCHANGED <<llm_responses, llm_response, handled, cbLog>>
            /\ stream_session_finish
    /\ UNCHANGED <<gemini, numbers, config, prompts, sent, pre, accumulated, last_response,
                   session_content>>

\* read(): chunk() yields Ok(None), or Err which `.ok()?` turns into None
read_none(report) ==
    /\ api = "stream_session"
    /\ pc = "streaming"
    /\ transport' = report
    /\ UNCHANGED <<gemini, numbers, config, prompts, sent, pre, chunks, locals>>
    /\ stream_session_finish

read_end == read_none("ended")
read_error == read_none("failed")

\* OllamaResponseStream::read2, one iteration of its loop (lines 48-59)
read2_chunk(c) ==
    /\ api = "read2"
    /\ Pull(c)
    /\ IF c.kind # "bad"
       THEN /\ Continue
            /\ handled' = Append(handled, c)
            /\ llm_responses' = IF save_responses
                                THEN Append(llm_responses, c) ELSE llm_responses
            /\ llm_response' = IF save_responses THEN llm_response ELSE c
       ELSE /\ Return("Err", None, "decode", messages)
            /\ UNCHANGED <<handled, llm_responses, llm_response>>
    /\ UNCHANGED <<gemini, numbers, config, prompts, sent, pre, accumulated, last_response,
                   session_content, cbLog>>

\* OllamaResponseStream::read2, the body has ended (line 61)
read2_end ==
    /\ api = "read2"
    /\ pc = "streaming"
    /\ transport' = "ended"
    /\ Return("Ok", None, "none", messages)
    /\ UNCHANGED <<gemini, numbers, config, prompts, sent, pre, chunks, locals>>

\* ==================================================== Gemini (src/gemini)
\* GeminiContent: an optional role and the parts, both kept as they are
Content(role, parts) == [role |-> role, parts |-> parts]

\* GeminiPart: Text, FunctionCall, FunctionResponse (name and result)
TextPart(t) == [part |-> "text", text |-> t, name |-> ""]
FunctionCallPart(n) == [part |-> "functionCall", text |-> Empty, name |-> n]
FunctionResponsePart(n, res) ==
    [part |-> "functionResponse", text |-> res, name |-> n]

\* GeminiResponse { candidates, error } and GeminiCandidate { content }
Candidate(c) == [content |-> c]
GeminiResponse(candidates, err) ==
    [json |-> "obj", candidates |-> candidates, error |-> err]

\* Bodies the API may answer with.  json "bad": no JSON document; "num": a
\* JSON document that does not deserialize into GeminiResponse.
GeminiBodies ==
    { [json |-> "bad", candidates |-> None, error |-> None],
      [json |-> "num", candidates |-> None, error |-> None],
      GeminiResponse(None, None),
      GeminiResponse(None, Some(TxtErr)),                      \* {"error": ..}
      GeminiResponse(Some(<<>>), None),                        \* no candidate
      GeminiResponse(Some(<<Candidate(Content(Some("model"), <<TextPart(TxtA)>>))>>), None),
      GeminiResponse(Some(<<Candidate(Content(Some("model"),
                                <<FunctionCallPart("get_weather")>>))>>), None),
      GeminiResponse(Some(<<Candidate(Content(None, <<TextPart(TxtB)>>))>>), None),
      GeminiResponse(Some(<<Candidate(Content(Some("model"), <<>>))>>), None)  \* "parts": []
    }

Statuses == {"success", "failure"}

\* Gemini::generate_json, line 123: serde_json::from_str(&text)?; the status
\* of the answer is not looked at
generate_json(st, b) == IF b.json = "bad" THEN None ELSE Some(b)

\* Gemini::chat, line 153: serde_json::from_value::<GeminiResponse>(..)?
chat_from_value(v) == IF v.json = "obj" THEN Some(v) ELSE None

\* GeminiResponse::content: the content of the first candidate
gemini_response_content(r) ==
    IF IsSome(r.candidates) /\ Unwrap(r.candidates) # <<>>
    THEN Some(Head(Unwrap(r.candidates)).content)
    ELSE None

\* GeminiRequest::add_content: self.contents.push(content)
add_content(contents, c) == Append(contents, c)

\* GeminiRequest::from_prompt / add_prompt: a content with the prompt's role
\* and one text part
from_prompt_contents(role, t) == add_content(<<>>, Content(role, <<TextPart(t)>>))
add_prompt_contents(contents, role, t) ==
    add_content(contents, Content(role, <<TextPart(t)>>))

\* faulty variant, for sensitivity of the properties: the tool result is added as a user content
add_function_response_as_user(contents, n, res) ==
    add_content(contents, Content(Some("user"), <<FunctionResponsePart(n, res)>>))

\* GeminiRequest::add_function_response: a content of role tool with one
\* FunctionResponse part
add_function_response_contents(contents, n, res) ==
    add_content(contents, Content(Some("tool"), <<FunctionResponsePart(n, res)>>))

\* GeminiRequest::add_response
gemini_add_response(contents, r) ==
    IF IsSome(gemini_response_content(r))
    THEN add_content(contents, Unwrap(gemini_response_content(r)))
    ELSE contents

Log(op, r) == ops' = Append(ops, [op |-> op, response |-> r])

\* let request = GeminiRequest::from_prompt(&prompt): the caller builds a request
from_prompt ==
    /\ api \in GeminiApis
    /\ pc = "idle"
    /\ ~held
    /\ prompts < MaxContents
    /\ prompts' = prompts + 1
    /\ messages' = from_prompt_contents(Some("user"), TxtQ)
    /\ held' = TRUE
    /\ Log("from_prompt", None)
    /\ Forget
    /\ UNCHANGED <<numbers, config, status, responses, pc, sent, pre>>

\* request.add_prompt(&prompt)
add_prompt ==
    /\ api \in GeminiApis
    /\ pc = "idle"
    /\ held
    /\ prompts < MaxContents
    /\ prompts' = prompts + 1
    /\ messages' = add_prompt_contents(messages, Some("user"), TxtQ)
    /\ Log("add_prompt", None)
    /\ Forget
    /\ UNCHANGED <<numbers, config, held, status, responses, pc, sent, pre>>

\* request.add_function_response(GeminiFunctionResponse::new(name, result))
add_function_response ==
    /\ api \in GeminiApis
    /\ pc = "idle"
    /\ held
    /\ prompts < MaxContents
    /\ prompts' = prompts + 1
    /\ messages' = add_function_response_contents(messages, "get_weather", TxtB)
    /\ Log("add_function_response", None)
    /\ Forget
    /\ UNCHANGED <<numbers, config, held, status, responses, pc, sent, pre>>

\* gemini.chat(request): the request is moved into chat, serialized and sent
gemini_chat ==
    /\ api \in GeminiApis
    /\ pc = "idle"
    /\ held
    /\ responses < MaxChats
    /\ pc' = "sending"
    /\ held' = FALSE
    /\ status' = "none"
    /\ pre' = messages
    /\ sent' = messages
    /\ Forget
    /\ UNCHANGED <<numbers, config, ops, messages, prompts, responses>>

\* generate_json, line 107: send().await answered, with whatever status
gemini_send_ok(st) ==
    /\ api \in GeminiApis
    /\ pc = "sending"
    /\ pc' = "reading"
    /\ status' = st
    /\ transport' = "open"
    /\ UNCHANGED <<numbers, config, held, ops, messages, prompts, responses, sent,
                   pre, chunks, locals, ret, result, failed_at>>

\* chat returns the error; the request it owned is dropped with it
chat_err(where) ==
    /\ Return("Err", None, where, messages)
    /\ Log("chat", None)
    /\ UNCHANGED <<numbers, config, held, status, prompts, sent, pre, chunks, locals>>

\* generate_json, lines 110-112: send().await failed
gemini_send_fail ==
    /\ api \in GeminiApis
    /\ pc = "sending"
    /\ transport' = "failed"
    /\ chat_err("send")

\* generate_json, lines 115-120: reading the body failed
gemini_text_fail ==
    /\ api \in GeminiApis
    /\ pc = "reading"
    /\ transport' = "failed"
    /\ chat_err("chunk")

\* generate_json, lines 115-124, then chat, lines 153-160: the body was read
gemini_body(b) ==
    /\ api \in GeminiApis
    /\ pc = "reading"
    /\ transport' = "ended"
    /\ LET json == generate_json(status, b)
           decoded == IF IsSome(json) THEN chat_from_value(Unwrap(json)) ELSE None
       IN  IF IsSome(decoded)
           THEN /\ Return("Ok", decoded, "none",
                          gemini_add_response(messages, Unwrap(decoded)))
                /\ held' = TRUE
                /\ Log("chat", decoded)
                /\ UNCHANGED <<numbers, config, status, prompts, sent, pre, chunks,
                               locals>>
           ELSE chat_err("decode")

\* ------------------- GeminiResponseStream (src/gemini/gemini_response_stream.rs)
\* one chunk of the event stream: whether its bytes hold the marker `data:`, and
\* what follows the first marker (json "bad" also stands for bytes that are no
\* UTF-8, which from_utf8(..).ok()? turns into None as well)
SseChunk(marker, body) == [marker |-> marker, body |-> body]
SseChunks == { SseChunk(m, b) : m \in BOOLEAN, b \in GeminiBodies }

\* GeminiResponse::new(value), line 49: the response made of a frame's value
gemini_response_new(v) == IF v.json = "obj" THEN v ELSE GeminiResponse(None, None)

\* GeminiResponse::text, gemini_response.rs lines 70-80: the text of the first
\* part of the first candidate; `parts[0]` panics when there is no part
gemini_response_text(r) ==
    IF IsSome(r.candidates) /\ Unwrap(r.candidates) # <<>>
    THEN LET parts == Head(Unwrap(r.candidates)).content.parts IN
         IF parts = <<>> THEN [panic |-> TRUE, value |-> None]
         ELSE IF parts[1].part = "text"
              THEN [panic |-> FALSE, value |-> Some(parts[1].text)]
              ELSE [panic |-> FALSE, value |-> None]
    ELSE [panic |-> FALSE, value |-> None]

\* GeminiResponseStream::read, lines 37-54: the response of this chunk; None
\* when the marker is missing or what follows it is no JSON document
gemini_stream_read(c) ==
    IF c.marker /\ c.body.json # "bad" THEN Some(gemini_response_new(c.body)) ELSE None

\* GeminiResponseStream::text, lines 74-80: filter_map(text) and join
RECURSIVE gemini_stream_text(_)
gemini_stream_text(rs) ==
    IF rs = <<>> THEN [panic |-> FALSE, value |-> Empty]
    ELSE LET t == gemini_response_text(Head(rs))
             rest == gemini_stream_text(Tail(rs))
         IN  [panic |-> t.panic \/ rest.panic,
              value |-> OptText(t.value) \o rest.value]

\* Gemini::generate_stream, gemini.rs lines 216-234: the request is sent
generate_stream ==
    /\ api \in GeminiStreamApis
    /\ pc = "idle"
    /\ responses < MaxResponses
    /\ pc' = "sending"
    /\ Forget
    /\ UNCHANGED <<gemini, numbers, config, messages, prompts, responses, sent, pre>>

\* lines 237-249: the stream is returned when sending succeeded ("success");
\* a status that is no success ("failure") and a failed send ("error") are errors
generate_stream_sent(outcome) ==
    /\ api \in GeminiStreamApis
    /\ pc = "sending"
    /\ IF outcome = "success"
       THEN /\ pc' = "streaming"
            /\ transport' = "open"
            /\ UNCHANGED <<messages, responses, ret, result, failed_at>>
       ELSE /\ transport' = "failed"
            /\ Return("Err", None, IF outcome = "failure" THEN "status" ELSE "send",
                      messages)
    /\ UNCHANGED <<gemini, numbers, config, prompts, sent, pre, chunks, locals>>

\* `while let Some(response) = stream.read().await`: one read that got a chunk
gemini_read_chunk(c) ==
    /\ api \in GeminiStreamApis
    /\ Pull(c)
    /\ IF IsSome(gemini_stream_read(c))
       THEN /\ handled' = Append(handled, Unwrap(gemini_stream_read(c)))
            /\ pc' = "streaming"
       ELSE /\ handled' = handled
            /\ pc' = "collected"
    /\ UNCHANGED <<gemini, numbers, config, messages, prompts, responses, sent, pre,
                   accumulated, last_response, llm_responses, llm_response,
                   session_content, cbLog, ret, result, failed_at>>

\* read(): chunk() yields Ok(None), or Err which `.ok()?` turns into None
gemini_read_none(report) ==
    /\ api \in GeminiStreamApis
    /\ pc = "streaming"
    /\ transport' = report
    /\ pc' = "collected"
    /\ UNCHANGED <<gemini, numbers, config, messages, prompts, responses, sent, pre,
                   chunks, locals, ret, result, failed_at>>

\* the caller asks the stream for its text once the loop is over
call_gemini_stream_text ==
    /\ api \in GeminiStreamApis
    /\ pc = "collected"
    /\ LET t == gemini_stream_text(handled) IN
       IF t.panic THEN Panic
       ELSE Return("Ok", Some(t.value), "none", messages)
    /\ UNCHANGED <<gemini, numbers, config, prompts, sent, pre, transport, chunks, locals>>

\* --------------------------------------------------- XmlUtil, the caller
\* XmlUtil::remove_tag(input, tag_name) is called
call_remove_tag ==
    /\ api \in XmlApis
    /\ pc = "idle"
    /\ ret = "none"
    /\ Return("Ok", remove_tag(input, tag_name), "none", messages)
    /\ UNCHANGED <<gemini, numbers, config, prompts, sent, pre, transport, chunks, locals>>

\* ------------------------------------------- the statistics of a response
Applied(fn, out) ==
    /\ pc = "idle"
    /\ stats' = [fn |-> fn, out |-> out]
    /\ UNCHANGED <<gemini, config, counts, messages, prompts, responses, pc, sent,
                   pre, transport, chunks, locals, ret, result, failed_at>>

\* response.tokens_used() of either response type
call_tokens_used(build) ==
    /\ api \in StatApis
    /\ Applied("tokens_used", tokens_used(counts, CountLimbs(api), build))

\* response.elapsed_time()
call_elapsed_time ==
    /\ api = "response"
    /\ Applied("elapsed_time", elapsed_time(counts))

\* response.eval_rate()
call_eval_rate ==
    /\ api = "response"
    /\ Fits(counts)
    /\ Applied("eval_rate", eval_rate(counts))

\* response.print_stats(): the eval_time, eval_rate and context_used it prints
print_stats(build) ==
    /\ api = "ollama_response"
    /\ Fits(counts)
    /\ Applied("print_stats",
               [eval_time |-> elapsed_time(counts),
                eval_rate |-> eval_rate(counts),
                context_used |-> tokens_used(counts, U32Limbs, build)])

Next ==
    \/ user
    \/ system
    \/ assistant
    \/ call
    \/ send_ok
    \/ send_fail
    \/ \E c \in Chunks : send_request_chunk(c)
    \/ send_request_end
    \/ \E c \in Chunks : request3_chunk(c)
    \/ request3_end
    \/ chunk_error
    \/ \E c \in Chunks : read_chunk(c)
    \/ read_end
    \/ read_error
    \/ \E c \in Chunks : read2_chunk(c)
    \/ read2_end
    \/ from_prompt
    \/ add_prompt
    \/ add_function_response
    \/ gemini_chat
    \/ \E st \in Statuses : gemini_send_ok(st)
    \/ gemini_send_fail
    \/ gemini_text_fail
    \/ \E b \in GeminiBodies : gemini_body(b)
    \/ generate_stream
    \/ \E outcome \in {"success", "failure", "error"} : generate_stream_sent(outcome)
    \/ \E c \in SseChunks : gemini_read_chunk(c)
    \/ \E report \in {"ended", "failed"} : gemini_read_none(report)
    \/ call_gemini_stream_text
    \/ call_remove_tag
    \/ \E build \in Builds : call_tokens_used(build)
    \/ call_elapsed_time
    \/ call_eval_rate
    \/ \E build \in Builds : print_stats(build)

Spec == Init /\ [][Next]_vars


\* ================================================================ claims
Last(q) == q[Len(q)]
IsPrefix(p, q) == Len(p) <= Len(q) /\ SubSeq(q, 1, Len(p)) = p

\* the chunks of this call that were JSON documents, in arrival order
IsJson(c) == c.kind # "bad"
JsonFrames == SelectSeq(chunks, IsJson)

\* the text a response shows: its message content, else its response field
ResponseText(r) ==
    IF r.msg /\ IsSome(r.content) THEN Unwrap(r.content) ELSE OptText(r.response)

\* the text of what a call returned (no response: no text)
FinalText == IF IsSome(result) THEN ResponseText(Unwrap(result)) ELSE Empty

\* the text fragment send_request takes from one frame
Fragment(r) == OptText(r.response) \o OptText(IF r.msg THEN r.content ELSE None)

RECURSIVE ConcatFragments(_)
ConcatFragments(fs) ==
    IF fs = <<>> THEN Empty ELSE Fragment(Head(fs)) \o ConcatFragments(Tail(fs))

\* C1: every update that returns Ok has grown the message list by exactly one
\* entry, appended at the end, whose content is the final text of the response
C1_UpdateAppendsFinalText ==
    (api \in Sessions /\ pc = "idle" /\ ret = "Ok") =>
        /\ Len(messages) = Len(pre) + 1
        /\ IsPrefix(pre, messages)
        /\ Last(messages).content = Some(FinalText)

\* C2: when sending fails, update returns an error and the message list is what
\* it was before the call; an update called again sends the same turns
C2_FailedSend == api \in Sessions /\ failed_at = "send"

C2_SendFailureKeepsTranscript ==
    /\ [](C2_FailedSend =>
            (ret = "Err" /\ pc = "idle" /\ messages = pre /\ messages = sent
             /\ cbLog = <<>>))
    /\ [][(C2_FailedSend /\ pc' = "sending") => sent' = sent]_vars

C2_Witness == C2_FailedSend /\ ret = "Err" /\ messages # <<>>

\* C3: in send_request with streaming, the accumulated text after each frame is
\* the text before it with that frame's fragment appended, and the text of the
\* final response is the concatenation of all fragments in arrival order
C3_Streamed == api \in {"session", "chat"} /\ stream

C3_TextIsConcatenation ==
    /\ [][(C3_Streamed /\ pc = "streaming" /\ handled' # handled) =>
            (/\ accumulated' = accumulated \o Fragment(Last(handled'))
             /\ Len(accumulated') >= Len(accumulated))]_vars
    /\ []((C3_Streamed /\ ret = "Ok" /\ IsSome(result)) =>
            FinalText = ConcatFragments(JsonFrames))

C3_Witness ==
    /\ C3_Streamed /\ ret = "Ok" /\ IsSome(result)
    /\ Len(JsonFrames) = 2
    /\ FinalText = TxtA \o TxtB


\* the frames the update of this run decoded so far, in arrival order: request3
\* decodes JSON objects only, send_request and read any JSON document
IsDecoded(c) ==
    IF api \in {"ollama_session", "chat3"} THEN c.kind = "obj" ELSE c.kind # "bad"
DecodedFrames == SelectSeq(chunks, IsDecoded)

\* the text fragment the update of this run takes from a frame: the message
\* content; in ollama_session.rs the response's text (content, else response)
TextFragment(r) ==
    IF api = "ollama_session"
    THEN (IF r.msg /\ IsSome(r.content) THEN r.content ELSE r.response)
    ELSE (IF r.msg THEN r.content ELSE None)

RECURSIVE FragmentCalls(_)
FragmentCalls(fs) ==
    IF fs = <<>> THEN <<>>
    ELSE (IF IsSome(TextFragment(Head(fs))) THEN <<Unwrap(TextFragment(Head(fs)))>> ELSE <<>>)
         \o FragmentCalls(Tail(fs))

RECURSIVE FragmentAndErrorCalls(_)
FragmentAndErrorCalls(fs) ==
    IF fs = <<>> THEN <<>>
    ELSE (IF api = "session" /\ IsSome(Head(fs).error)
          THEN <<Unwrap(Head(fs).error)>> ELSE <<>>)
         \o (IF IsSome(TextFragment(Head(fs))) THEN <<Unwrap(TextFragment(Head(fs)))>> ELSE <<>>)
         \o FragmentAndErrorCalls(Tail(fs))

C5_CommitAfterLastCallback ==
    /\ []((api \in Sessions /\ pc \in {"sending", "streaming"}) => messages = sent)
    /\ [][(api \in Sessions /\ pc = "streaming" /\ cbLog' # cbLog) =>
            (messages' = sent /\ pc' = "streaming")]_vars
    /\ [][(api \in Sessions /\ pc = "streaming" /\ messages' # messages) =>
            (cbLog' = cbLog /\ pc' = "idle")]_vars

C5_Witness ==
    /\ api \in Sessions /\ ret = "Ok"
    /\ Len(cbLog) = 2
    /\ Len(messages) = Len(sent) + 1

\* C6: send_request skips a chunk that is no JSON: the step changes nothing but
\* the position in the body, the call goes on, every JSON chunk (earlier or
\* later) is handed to the response handler and accumulated, and only a
\* transport failure makes the call return an error
C6_Api == api \in {"session", "chat"}

C6_BadChunkIsSkipped ==
    /\ [][(C6_Api /\ Len(chunks') > Len(chunks) /\ ~IsJson(Last(chunks'))) =>
            (/\ pc' = "streaming"
             /\ UNCHANGED <<handled, accumulated, last_response, cbLog, messages, ret>>)]_vars
    /\ [](C6_Api =>
            (/\ handled = JsonFrames
             /\ (stream => accumulated = ConcatFragments(JsonFrames))
             /\ (ret = "Err" => transport = "failed")))

C6_Witness ==
    /\ C6_Api /\ stream /\ ret = "Ok"
    /\ Len(chunks) = 2 /\ ~IsJson(chunks[1]) /\ IsJson(chunks[2])
    /\ FinalText = TxtA

\* C7: in request3 (generate3, chat3, the update built on it) and in read2 a
\* chunk that does not decode never makes the call return an error
C7_UndecodableChunkNeverFails ==
    api \in {"ollama_session", "chat3", "read2"} => failed_at # "decode"

\* C8: with an empty body every streaming operation finishes without panicking
C8_EmptyBodyFinishes ==
    (api \in Apis /\ transport = "ended" /\ chunks = <<>>) => (pc = "idle" /\ ret = "Ok")

\* C9: when the transport fails after at least one frame was delivered, update
\* returns an error and the message list is as before the call
C9_MidStreamFailureIsFatal ==
    (api \in Sessions /\ transport = "failed" /\ handled # <<>>) =>
        (ret = "Err" /\ messages = pre)

\* C10: each decoded frame with an error field is surfaced to the update
\* callback, reading goes on, and update returns no error because of it
ErrorFrames == SelectSeq(DecodedFrames, LAMBDA r : IsSome(r.error))
ErrorCalls == SelectSeq(cbLog, LAMBDA t : t = TxtErr)

C10_ErrorFrameReachesCallback ==
    api \in Sessions =>
        /\ Len(ErrorCalls) = Len(ErrorFrames)
        /\ (chunks # <<>> /\ transport = "open" /\ IsDecoded(Last(chunks))
              /\ IsSome(Last(chunks).error))
           => (pc = "streaming" /\ ret = "none")

\* the tool calls the frames of this call carried, in arrival order
RECURSIVE ToolCallsOf(_)
ToolCallsOf(fs) ==
    IF fs = <<>> THEN <<>> ELSE Head(fs).tool_calls \o ToolCallsOf(Tail(fs))

\* C14: when a streamed chat / update has returned Ok with a response, the
\* tool calls carried by the frames of the body are all in that response,
\* each once and in arrival order, and also in the turn update committed.
C14_ToolCallsReachFinalResponse ==
    (api \in Sessions \cup {"chat", "chat3"} /\ stream /\ pc = "idle"
        /\ ret = "Ok" /\ IsSome(result)) =>
        /\ Unwrap(result).tool_calls = ToolCallsOf(JsonFrames)
        /\ (api \in Sessions /\ Len(messages) > Len(pre)) =>
               Last(messages).tool_calls = ToolCallsOf(JsonFrames)

\* C11: no operation on a request removes, reorders or rewrites a turn: the
\* message list before each step is a prefix of the list after it (building
\* a new GeminiRequest with from_prompt starts a new list), and the request
\* that is sent lists the turns as they are in the list.
C11_BuildsRequest == api \in GeminiApis /\ pc = "idle" /\ ~held

C11_TurnsAreOnlyAppended ==
    [][/\ ~C11_BuildsRequest => IsPrefix(messages, messages')
       /\ (pc = "idle" /\ pc' = "sending") => sent' = messages]_vars

C11_Witness ==
    /\ api \in GeminiApis /\ held /\ ret = "Ok"
    /\ Len(messages) = 4 /\ SubSeq(messages, 1, 3) = pre

\* the message a response has, as the turn that is a copy of it
CopyOfMessage(r) ==
    IF api \in GeminiApis
    THEN IF IsSome(r.candidates) /\ Unwrap(r.candidates) # <<>>
         THEN <<Unwrap(r.candidates)[1].content>> ELSE <<>>
    ELSE IF r.msg
         THEN <<[role |-> r.role, content |-> r.content, tool_calls |-> <<>>]>>
         ELSE <<>>

\* C12: add_response (as update of ollama_session.rs and Gemini::chat call it)
\* appends a copy of the response's message as the last turn when there is
\* one and leaves the list as it is (absent, that is empty, included) when
\* there is none; the earlier turns are unchanged either way.
C12_Commits ==
    /\ api \in {"ollama_session"} \cup GeminiApis
    /\ pc # "idle" /\ pc' = "idle" /\ ret' = "Ok"

C12_AddResponseAppendsMessage ==
    [][C12_Commits => messages' = messages \o CopyOfMessage(Unwrap(result'))]_vars

C12_Witness ==
    /\ api = "ollama_session" /\ pc = "idle" /\ ret = "Ok"
    /\ pre # <<>> /\ messages = pre /\ ~Unwrap(result).msg

\* the names of the function calls of a response's first candidate
IsFunctionCall(part) == part.part = "functionCall"
FunctionCalls(r) ==
    IF CopyOfMessage(r) = <<>> THEN <<>>
    ELSE SelectSeq(CopyOfMessage(r)[1].parts, IsFunctionCall)

\* C13: from a request holding one user prompt, a chat answered with a tool
\* call, one add_function_response and a chat answered with content leave four
\* turns: the prompt, the tool call, the tool result (role tool, with the
\* tool's name and result), the final answer.
C13_RoundTripDone ==
    /\ api \in GeminiApis /\ pc = "idle" /\ Len(ops) = 4
    /\ ops[1].op = "from_prompt"
    /\ ops[2].op = "chat" /\ IsSome(ops[2].response)
    /\ FunctionCalls(Unwrap(ops[2].response)) # <<>>
    /\ ops[3].op = "add_function_response"
    /\ ops[4].op = "chat" /\ IsSome(ops[4].response)
    /\ CopyOfMessage(Unwrap(ops[4].response)) # <<>>

C13_ToolRoundTripHasFourTurns ==
    C13_RoundTripDone =>
        /\ Len(messages) = 4
        /\ messages[1] = Content(Some("user"), <<TextPart(TxtQ)>>)
        /\ <<messages[2]>> = CopyOfMessage(Unwrap(ops[2].response))
        /\ messages[3].role = Some("tool")
        /\ messages[3].parts = <<FunctionResponsePart("get_weather", TxtB)>>
        /\ <<messages[4]>> = CopyOfMessage(Unwrap(ops[4].response))

C13_Witness ==
    /\ C13_RoundTripDone
    /\ messages[4].parts = <<TextPart(TxtA)>>

\* C15: the turn appended for a finished response has the assistant role
\* (for Gemini: "model"), or the tool role.
C15_CommittedTurnIsAssistant ==
    (api \in Sessions \cup GeminiApis /\ pc = "idle" /\ ret = "Ok"
        /\ Len(messages) > Len(pre)) =>
        Last(messages).role \in {Some("assistant"), Some("model"), Some("tool")}

\* C16: after a failed Gemini::chat the caller still holds the request, with
\* the contents it had before the call.
C16_FailedChatKeepsRequest ==
    (api \in GeminiApis /\ pc = "idle" /\ ret = "Err") => (held /\ messages = pre)

\* C17: an answer with a non-success status makes chat return an error, and
\* no turn is added.
C17_FailureStatusIsError ==
    (api \in GeminiApis /\ pc = "idle" /\ status = "failure" /\ ret # "none") =>
        (ret = "Err" /\ messages = pre)

\* C18: tokens_used() returns, without panicking, the exact sum of eval_count
\* and prompt_eval_count (an absent count being 0), for all counts the types
\* hold.
C18_TokensUsedIsExactSum ==
    (api \in StatApis /\ stats.fn = "tokens_used") =>
        /\ ~stats.out.panic
        /\ stats.out.value \o <<0>> =
              AddLimbs(IF IsSome(counts.eval_count)
                       THEN Unwrap(counts.eval_count)
                       ELSE SmallValue(CountLimbs(api), 0),
                       IF IsSome(counts.prompt_eval_count)
                       THEN Unwrap(counts.prompt_eval_count)
                       ELSE SmallValue(CountLimbs(api), 0),
                       0)

\* eval_duration nanoseconds as seconds, exactly
ExactSeconds ==
    IF IsSome(counts.eval_duration)
    THEN Ratio(Unwrap(counts.eval_duration), NanosPerSecond)
    ELSE Ratio(0, 1)

\* C19: the elapsed time of a response (elapsed_time, and eval_time of
\* print_stats) is eval_duration / 1e9 seconds, and 0 when it is absent.
C19_ElapsedIsNanosOverBillion ==
    /\ (api = "response" /\ stats.fn = "elapsed_time") => stats.out = ExactSeconds
    /\ (api = "ollama_response" /\ stats.fn = "print_stats") =>
           stats.out.eval_time = ExactSeconds

\* the rate a statistics call returned, and the count it was derived from
RateOut == IF stats.fn = "eval_rate" THEN stats.out ELSE stats.out.eval_rate
EvalCount == IF IsSome(counts.eval_count) THEN Unwrap(counts.eval_count)[1] ELSE 0

Streaming == {"session", "chat", "ollama_session", "chat3", "stream_session"}

\* C22: the read loop of update (ollama/session.rs), and a read loop over a
\* GeminiResponseStream, ends only when the transport
\* reported that the body is over (read returned None for that reason alone):
\* it never ends while the transport is still open, whatever the chunk was
C22_ReadEndsOnlyAtEndOfBody ==
    /\ (api = "stream_session" /\ chunks # <<>> /\ pc # "streaming") => transport # "open"
    /\ (api \in GeminiStreamApis /\ chunks # <<>> /\ pc # "streaming") => transport # "open"

\* C23: once a decoded frame with done = true has been accumulated no further
\* chunk is read from the transport
C23_NothingReadAfterDone ==
    api \in Streaming =>
        \A i \in 1..(Len(chunks) - 1) : ~(IsDecoded(chunks[i]) /\ chunks[i].done)

\* the text a frame carries, and the texts of a sequence of frames joined
FrameText(r) == IF IsSome(TextFragment(r)) THEN Unwrap(TextFragment(r)) ELSE Empty

RECURSIVE ConcatTexts(_)
ConcatTexts(ts) == IF ts = <<>> THEN Empty ELSE Head(ts) \o ConcatTexts(Tail(ts))

\* C24: when the last decoded frame is terminal (done = true) and carries a text
\* that is not empty and differs from the concatenation of the fragments before
\* it, the text of the returned response (and of the committed turn) is that
\* frame's text
C24_TerminalCase ==
    /\ api \in Streaming /\ stream /\ pc = "idle" /\ ret = "Ok" /\ IsSome(result)
    /\ DecodedFrames # <<>>
    /\ Last(DecodedFrames).done
    /\ FrameText(Last(DecodedFrames)) # Empty
    /\ FrameText(Last(DecodedFrames))
         # ConcatTexts(FragmentCalls(SubSeq(DecodedFrames, 1, Len(DecodedFrames) - 1)))

C24_TerminalTextWins ==
    C24_TerminalCase =>
        /\ FinalText = FrameText(Last(DecodedFrames))
        /\ (api \in {"session", "ollama_session"} =>
                Last(messages).content = Some(FrameText(Last(DecodedFrames))))

\* C25: when the transport is cut after the request was sent, update returns
\* successfully and has appended exactly one turn, whose text is the fragments
\* delivered to the callback, in order
C25_CancelledMidStream ==
    /\ api \in Sessions /\ transport = "failed" /\ failed_at # "send" /\ pc # "streaming"
    /\ cbLog # <<>>

C25_CancelCommitsDelivered ==
    C25_CancelledMidStream =>
        /\ ret = "Ok"
        /\ Len(messages) = Len(pre) + 1
        /\ IsPrefix(pre, messages)
        /\ Last(messages).content = Some(ConcatTexts(cbLog))

\* a whole reply delivered as one frame: the text t, role assistant, done = true
OneFrame(t) == Obj(TRUE, Assistant, Some(t), None, None, TRUE)

\* the message list update leaves when the body is OneFrame(t) alone
OneFrameCommit(t) ==
    IF api = "session"
    THEN session_update_commit(pre, session_update_accumulate(Empty, OneFrame(t)))
    ELSE LET f == Unwrap(request3_decode(OneFrame(t))) IN
         ollama_session_update_commit(pre,
             Unwrap(request3_result(Some(f), request3_accumulate(Empty, f), TRUE).value))

\* an update that returned Ok on a body of chat frames (each with a message of
\* role assistant and a content, no response field)
C27_ChatFrames ==
    /\ api \in {"session", "ollama_session"} /\ pc = "idle" /\ ret = "Ok"
    /\ DecodedFrames # <<>>
    /\ \A i \in 1..Len(DecodedFrames) :
          /\ DecodedFrames[i].msg /\ DecodedFrames[i].role = Assistant
          /\ IsSome(DecodedFrames[i].content) /\ ~IsSome(DecodedFrames[i].response)

\* C27: the turn an update commits for a streamed body of chat frames is the
\* turn (role and content) it commits when the concatenated text of those
\* frames arrives as one frame with done = true
C27_StreamedEqualsOneFrame ==
    C27_ChatFrames =>
        /\ messages = OneFrameCommit(ConcatTexts(FragmentCalls(DecodedFrames)))
        /\ Last(messages).role = Assistant
        /\ Last(messages).content = Some(ConcatTexts(FragmentCalls(DecodedFrames)))

C27_Witness ==
    /\ C27_ChatFrames /\ api = "session"
    /\ Len(DecodedFrames) = 2
    /\ ~DecodedFrames[1].done /\ DecodedFrames[2].done
    /\ Last(messages) = Turn(Assistant, Some(TxtA \o TxtB))
    /\ messages = OneFrameCommit(TxtA \o TxtB)

\* C29: when update has returned Ok and committed a turn, the strings passed to
\* the callback, joined in order, are the content of that turn
C29_CallbackTextIsCommittedText ==
    (api \in Sessions /\ pc = "idle" /\ ret = "Ok" /\ Len(messages) = Len(pre) + 1) =>
        Last(messages).content = Some(ConcatTexts(cbLog))

\* the JSON documents a body is made of, and the bodies of one or two documents
Docs == { c \in Chunks : c.kind # "bad" }
Bodies == { <<d>> : d \in Docs } \cup { <<d, e>> : d \in Docs, e \in Docs }

\* how the transport cuts a body into chunks: one document per chunk, the
\* first document cut in two chunks, or the first two documents in one chunk
Framings == {"document", "halved", "joined"}

Framing(docs, how) ==
    IF how = "halved"
    THEN <<<<FirstHalf(docs[1])>>, <<SecondHalf(docs[1])>>>>
         \o [i \in 1..(Len(docs) - 1) |-> <<Whole(docs[i + 1])>>]
    ELSE IF how = "joined" /\ Len(docs) >= 2
    THEN <<<<Whole(docs[1]), Whole(docs[2])>>>>
    ELSE [i \in 1..Len(docs) |-> <<Whole(docs[i])>>]

\* what the chunk loops get to decode for a body cut that way
Wire(docs, how) ==
    [i \in 1..Len(Framing(docs, how)) |-> parse_chunk(Framing(docs, how)[i])]

\* C26: however the transport cuts a body into chunks, the callback gets the
\* calls, and the final response the text, of that body delivered one document
\* per chunk
C26_FramingDoesNotMatter ==
    \A docs \in Bodies : \A how \in Framings :
        (api \in Apis /\ chunks = Wire(docs, how)) =>
            /\ api \in Sessions =>
                   cbLog = FragmentAndErrorCalls(SelectSeq(docs, IsDecoded))
            /\ (C3_Streamed /\ pc = "idle" /\ ret = "Ok") =>
                   FinalText = ConcatFragments(docs)

\* the text of the first part of the first candidate of a response, if it has
\* such a part and that part is text
FirstPartText(r) ==
    IF /\ IsSome(r.candidates) /\ Unwrap(r.candidates) # <<>>
       /\ Head(Unwrap(r.candidates)).content.parts # <<>>
       /\ Head(Head(Unwrap(r.candidates)).content.parts).part = "text"
    THEN Head(Head(Unwrap(r.candidates)).content.parts).text
    ELSE Empty

\* C28: text() of a GeminiResponseStream never panics: it returns the texts of
\* the responses whose first candidate's first part is text, joined in order; a
\* response without candidates, with no part, or with another first part
\* contributes nothing
C28_TextSkipsResponsesWithoutText ==
    (api \in GeminiStreamApis /\ ret \in {"Ok", "panic"}) =>
        /\ ret = "Ok"
        /\ result = Some(ConcatTexts([i \in 1..Len(handled) |-> FirstPartText(handled[i])]))

\* the text remove_tag left: the returned text, the input itself for None
Output == IF IsSome(result) THEN Unwrap(result) ELSE input

\* position i opens an element whose name is exactly tag: `<tag>` or `<tag `
OpensElement(s, tag, i) ==
    /\ Matches(s, <<"<">> \o tag, i)
    /\ i + Len(tag) + 1 <= Len(s)
    /\ s[i + Len(tag) + 1] \in {">", " "}

\* the text holds a complete element of that name: its opening tag up to `>`,
\* and after it the closing tag `</tag>`
HasElement(s, tag) ==
    \E i \in 1..Len(s) :
        /\ OpensElement(s, tag, i)
        /\ find(s, <<">">>, i) # 0
        /\ find(s, <<"<", "/">> \o tag \o <<">">>, find(s, <<">">>, i) + 1) # 0

RECURSIVE IsSubsequence(_, _)
IsSubsequence(a, b) ==
    IF a = <<>> THEN TRUE
    ELSE IF b = <<>> THEN FALSE
    ELSE IF Head(a) = Head(b) THEN IsSubsequence(Tail(a), Tail(b))
    ELSE IsSubsequence(a, Tail(b))

\* C21: remove_tag returns None exactly when it removed nothing, otherwise the
\* input with text removed (and nothing added or reordered), and no complete
\* element of that name is left in the text, also not one formed by joining
\* the text around a removed occurrence
C21_NoElementIsLeft ==
    (api \in XmlApis /\ ret = "Ok") =>
        /\ IsSome(result) <=> Output # input
        /\ IsSubsequence(Output, input)
        /\ ~HasElement(Output, tag_name)

C21_Witness ==
    /\ api \in XmlApis /\ ret = "Ok" /\ tag_name = T
    /\ input = <<"<", "<", "t", ">", "a", "<", "/", "t", ">",
                 "t", ">", "c", "<", "/", "t", ">">>
    /\ result = Some(Empty)

\* C30: remove_tag deletes nothing when the text has no complete element whose
\* name is exactly the tag, and a tag at the start of the text whose name only
\* begins with the tag name, or which is self-closing, stays where it is
C30_StartsWithOtherTag ==
    /\ Matches(input, <<"<">> \o tag_name, 1)
    /\ Len(input) >= Len(tag_name) + 2
    /\ input[Len(tag_name) + 2] \notin {">", " "}

C30_OnlyExactElementsAreDeleted ==
    (api \in XmlApis /\ ret = "Ok") =>
        /\ ~HasElement(input, tag_name) => result = None
        /\ C30_StartsWithOtherTag =>
               IsPrefix(SubSeq(input, 1, Len(tag_name) + 2), Output)

====
